---------------------------- MODULE Spec2Model ----------------------------
(***************************************************************************)
(* next-ai-draw-io: the chat route (src/app/api/chat/route.ts, POST) and   *)
(* the settings dialog (src/components/api-config-dialog.tsx).             *)
(*                                                                         *)
(* Spec       one execution of the POST handler on one request             *)
(* DialogSpec the ApiConfigDialog component and the localStorage entry     *)
(* StoreSpec  handleSave followed by the mount effect, from any config     *)
(*                                                                         *)
(* Text is a sequence of chunks (a chunk is a TLA+ string), so that        *)
(* template literals and string concatenation are sequence concatenation.  *)
(***************************************************************************)
EXTENDS Integers, Sequences, FiniteSets, TLC

VARIABLES
    \* ---- chat route ----
    pc,               \* position of the POST handler
    request,          \* the incoming request (body of req.json())
    upstream,         \* how the vendor answers this request, if it is asked
    selectedModel,    \* let selectedModel (route.ts:35)
    modelMessages,    \* const modelMessages (route.ts:201)
    enhancedMessages, \* let enhancedMessages (route.ts:202)
    upstreamCalls,    \* the calls issued to a vendor, in order
    response,         \* the Response the handler returned
    thrown,           \* the exception on its way to the catch block
    logged,           \* what console.error received
    \* ---- settings dialog ----
    phase,            \* "unmounted" | "mounted" | "crashed"
    storage,          \* localStorage entry "ai-draw-config"
    config,           \* useState config
    availableModels,  \* useState availableModels
    isLoadingModels,  \* useState isLoadingModels
    modelSearchQuery, \* useState modelSearchQuery
    isOpen,           \* useState isOpen
    alerted,          \* the last message passed to alert()
    inflight,         \* the GET of fetchModels that has not settled yet
    fetchCalls,       \* number of fetchModels invocations since the mount
    lastSaved         \* the config handleSave was last run on

chatVars == <<pc, request, upstream, selectedModel, modelMessages,
              enhancedMessages, upstreamCalls, response, thrown, logged>>
dialogVars == <<phase, storage, config, availableModels, isLoadingModels,
                modelSearchQuery, isOpen, alerted, inflight, fetchCalls,
                lastSaved>>
vars == <<pc, request, upstream, selectedModel, modelMessages,
          enhancedMessages, upstreamCalls, response, thrown, logged,
          phase, storage, config, availableModels, isLoadingModels,
          modelSearchQuery, isOpen, alerted, inflight, fetchCalls, lastSaved>>

(***************************************************************************)
(* Bounds                                                                  *)
(***************************************************************************)
MaxMsgs == 2        \* longest message list of a request
MaxParts == 2       \* most parts of the last message
MaxFetchCalls == 2  \* fetchModels invocations followed per mount

(***************************************************************************)
(* JavaScript values                                                       *)
(***************************************************************************)
\* a property that is absent, or whose value is undefined
Undefined == "<undefined>"
\* the empty string
Empty == ""
\* !v for a value that is a string or undefined
Falsy(v) == v \in {Undefined, Empty}
\* v || d
OrElse(v, d) == IF Falsy(v) THEN d ELSE v

RECURSIVE SeqsUpTo(_, _)
\* the sequences over S of length at most n
SeqsUpTo(S, n) ==
    IF n = 0 THEN {<< >>}
    ELSE LET shorter == SeqsUpTo(S, n - 1)
         IN  shorter \cup {Append(s, x) : s \in {t \in shorter : Len(t) = n - 1}, x \in S}

(***************************************************************************)
(* Text                                                                    *)
(***************************************************************************)
\* a text value that is absent (undefined)
NoText == <<Undefined>>
\* !t for a text value
FalsyText(t) == t = NoText \/ t = << >>
\* t || d for text values
OrElseText(t, d) == IF FalsyText(t) THEN d ELSE t

(***************************************************************************)
(* Chat route: the requests                                                *)
(***************************************************************************)
\* interface ApiConfig, as it arrives in a request body
RequestProviders == {Empty, "openai", "openrouter", "google", "siliconflow", "OpenAI"}
RequestApiKeys == {Empty, "sk-1", "sk-2"}
RequestModelIds == {Undefined, "my-model"}
NoApiConfig == [present |-> FALSE, provider |-> Undefined, apiKey |-> Undefined, model |-> Undefined]
ApiConfigs ==
    {NoApiConfig} \cup
    [present : {TRUE}, provider : RequestProviders, apiKey : RequestApiKeys, model : RequestModelIds]

\* parts of a UIMessage
TextPart(t) == [type |-> "text", text |-> t, url |-> Undefined, mediaType |-> Undefined]
FilePart(u, m) == [type |-> "file", text |-> NoText, url |-> u, mediaType |-> m]
UIParts == {TextPart(<<"draw a cat">>), FilePart("blob:1", "image/png"), FilePart("blob:2", "image/jpeg")}
UIRoles == {"user", "assistant"}
\* the turns before the last one
PriorTurns ==
    { [role |-> "user", parts |-> <<TextPart(<<"hello">>), FilePart("blob:0", "image/png")>>],
      [role |-> "assistant", parts |-> <<TextPart(<<"hi">>)>>] }
LastTurns == [role : UIRoles, parts : SeqsUpTo(UIParts, MaxParts)]
\* the message lists of a request: any prior turns, then any last turn
MessageLists ==
    {<< >>} \cup
    {Append(prior, last) : prior \in SeqsUpTo(PriorTurns, MaxMsgs - 1), last \in LastTurns}
\* the diagram of a request: absent, the empty string, a document
Xmls == {NoText, << >>, <<"<root/>">>}

\* what req.json() gives: it rejects (the body is no JSON), null, or an object
NonObjectBody(k) ==
    [kind |-> k, apiConfig |-> NoApiConfig, xml |-> NoText, hasMessages |-> FALSE, messages |-> << >>]
Requests ==
    {NonObjectBody("malformed"), NonObjectBody("null")} \cup
    [kind : {"object"}, apiConfig : ApiConfigs, xml : Xmls, hasMessages : {TRUE}, messages : MessageLists] \cup
    [kind : {"object"}, apiConfig : ApiConfigs, xml : Xmls, hasMessages : {FALSE}, messages : {<< >>}]

(***************************************************************************)
(* Chat route: the vendors                                                 *)
(***************************************************************************)
\* tokens of a completion text
\* the fence of a code block: three backquotes
Fence == "<fence>"
XmlLabel == "xml"
Space == " "
Newline == "\n"
IsWhitespace(c) == c \in {Space, Newline}

NoUpstream ==
    [ok |-> TRUE, status |-> 0, statusText |-> << >>, errorMessage |-> NoText,
     content |-> NoText, streamError |-> "none"]
\* answers of https://api.siliconflow.cn/v1/chat/completions
Completion(c) == [NoUpstream EXCEPT !.status = 200, !.statusText = <<"OK">>, !.content = c]
Failure(s, t, m) == [NoUpstream EXCEPT !.ok = FALSE, !.status = s, !.statusText = t, !.errorMessage = m]
CompletionAnswers ==
    { Completion(<<"Here:", Newline, Fence, XmlLabel, Newline, "<root/>", Newline, Fence, Newline, "done">>),
      Completion(<<Fence, XmlLabel, Space, Space, "<a/>", Space, "<b/>", Space, Newline, Fence>>),
      Completion(<<"no diagram">>),
      Completion(NoText),
      Failure(401, <<"Unauthorized">>, <<"bad key">>),
      Failure(503, <<"Service Unavailable">>, NoText) }
\* what the stream of streamText ends with: nothing, or an error of some type
StreamErrors == {"none", "null", "string", "Error", "object"}
StreamAnswers == {[NoUpstream EXCEPT !.status = 200, !.streamError = e] : e \in StreamErrors}
\* the answers a request can get
UpstreamsOf(req) ==
    IF req.kind = "object" /\ req.apiConfig.provider = "siliconflow" THEN CompletionAnswers
    ELSE IF req.kind = "object" /\ req.apiConfig.provider \in {"openai", "openrouter", "google"}
         THEN StreamAnswers
         ELSE {NoUpstream}

(***************************************************************************)
(* Chat route: responses                                                   *)
(***************************************************************************)
NoResponse == [kind |-> "none", status |-> 0, error |-> NoText, frames |-> << >>, stream |-> NoText]
\* Response.json({ error }, { status })
JsonError(msg, st) == [NoResponse EXCEPT !.kind = "json", !.status = st, !.error = msg]
\* route.ts:27 (the message of the source is in Chinese: the API config is missing)
ConfigMissing == JsonError(<<"API config missing, configure an AI provider first">>, 400)
\* route.ts:117 (the message of the source is in Chinese: unsupported AI provider)
UnsupportedProvider == JsonError(<<"unsupported provider">>, 400)
\* a catch clause that reports what it caught
InternalServerError_Leaky == JsonError(<<"Internal server error: ", thrown>>, 500)
\* route.ts:294
InternalServerError == JsonError(<<"Internal server error">>, 500)

\* the payload of a data: frame; tool is Undefined when the key is absent
SseEvent(txt, tl) == [type |-> "text", text |-> txt, tool |-> tl]
\* the literal frame  data: [DONE]
Done == [type |-> "[DONE]", text |-> NoText, tool |-> Undefined]
\* new Response(frames, {headers}) : status 200
SseResponse(event) == [NoResponse EXCEPT !.kind = "sse", !.status = 200, !.frames = <<event, Done>>]

\* errorHandler (route.ts:273): the text the stream reports for an error
errorHandler(e) ==
    CASE e = "null" -> <<"unknown error">>
      [] e = "string" -> <<"the string">>
      [] e = "Error" -> <<"error.message">>
      [] OTHER -> <<"JSON.stringify(error)">>

(***************************************************************************)
(* Chat route: the siliconflow result (route.ts:76-115)                    *)
(***************************************************************************)
RECURSIVE FirstFence(_, _)
\* the least index >= from that holds a fence, or Len(c) + 1
FirstFence(c, from) ==
    IF from > Len(c) THEN Len(c) + 1
    ELSE IF c[from] = Fence THEN from ELSE FirstFence(c, from + 1)
RECURSIVE SkipSpace(_, _)
\* the least index >= from that holds no whitespace
SkipSpace(c, from) ==
    IF from <= Len(c) /\ IsWhitespace(c[from]) THEN SkipSpace(c, from + 1) ELSE from
RECURSIVE DropTrailingSpace(_)
\* c without the whitespace it ends with
DropTrailingSpace(c) ==
    IF c # << >> /\ IsWhitespace(c[Len(c)]) THEN DropTrailingSpace(SubSeq(c, 1, Len(c) - 1)) ELSE c
\* the positions where  <fence>xml\s*([\s\S]*?)\s*<fence>  matches
Openings(c) ==
    {i \in 1..Len(c) : /\ c[i] = Fence
                       /\ i + 1 <= Len(c)
                       /\ c[i + 1] = XmlLabel
                       /\ FirstFence(c, SkipSpace(c, i + 2)) <= Len(c)}
\* content.match(...): is there a match
HasToolCall(c) == Openings(c) # {}
\* toolCallMatch[1]: the group of the leftmost match
ToolCallXml(c) ==
    LET i == CHOOSE j \in Openings(c) : \A k \in Openings(c) : j <= k
        start == SkipSpace(c, i + 2)
        close == FirstFence(c, start)
    IN  DropTrailingSpace(SubSeq(c, start, close - 1))
\* what lines 76-115 return for an answer of the completions endpoint
SiliconFlowResponse(ans) ==
    IF ~ans.ok
    THEN JsonError(<<"SiliconFlow API error: ">> \o OrElseText(ans.errorMessage, ans.statusText), ans.status)
    ELSE LET content == OrElseText(ans.content, << >>)
         IN  IF HasToolCall(content)
             THEN SseResponse(SseEvent(ToolCallXml(content), "display_diagram"))
             ELSE SseResponse(SseEvent(content, Undefined))

(***************************************************************************)
(* Chat route: context assembly (route.ts:182-227)                         *)
(***************************************************************************)
NoPart == [type |-> Undefined, text |-> NoText, data |-> Undefined, mediaType |-> Undefined,
           image |-> Undefined, mimeType |-> Undefined]
\* the parts of a ModelMessage
ModelText(t) == [NoPart EXCEPT !.type = "text", !.text = t]
ModelFile(u, m) == [NoPart EXCEPT !.type = "file", !.data = u, !.mediaType = m]
ModelImage(u, m) == [NoPart EXCEPT !.type = "image", !.image = u, !.mimeType = m]

IsText(part) == part.type = "text"
IsFile(part) == part.type = "file"

RECURSIVE PartsOfType(_, _)
\* the parts of s whose type is ty, in order
PartsOfType(s, ty) ==
    IF s = << >> THEN << >>
    ELSE (IF s[1].type = ty THEN <<s[1]>> ELSE << >>) \o PartsOfType(Tail(s), ty)

\* convertToModelMessages of the ai package: one model message per UI message
ConvertPart(part) ==
    IF IsText(part) THEN ModelText(part.text) ELSE ModelFile(part.url, part.mediaType)
ConvertMessage(m) ==
    [role |-> m.role,
     content |-> [i \in 1..Len(m.parts) |-> ConvertPart(m.parts[i])]]
convertToModelMessages(msgs) == [i \in 1..Len(msgs) |-> ConvertMessage(msgs[i])]

\* lastMessage.parts?.find(part => part.type === 'text')?.text || ''
lastMessageText(last) ==
    LET texts == PartsOfType(last.parts, "text")
    IN  IF texts = << >> THEN << >> ELSE OrElseText(texts[1].text, << >>)
\* lastMessage.parts?.filter(part => part.type === 'file') || []
fileParts(last) == PartsOfType(last.parts, "file")
\* the template of route.ts:190
formattedTextContent(xml, text) ==
    <<"\nCurrent diagram XML:\n\"\"\"xml\n">> \o OrElseText(xml, << >>)
        \o <<"\n\"\"\"\nUser input:\n\"\"\"md\n">> \o text \o <<"\n\"\"\"">>
\* contentParts (route.ts:209-220)
contentParts(xml, last) ==
    LET files == fileParts(last)
    IN  <<ModelText(formattedTextContent(xml, lastMessageText(last)))>>
            \o [i \in 1..Len(files) |-> ModelImage(files[i].url, files[i].mediaType)]
\* a rewrite that does not look at the role of the last turn
Enhance_AnyRole(converted, xml, last) ==
    IF Len(converted) >= 1
    THEN SubSeq(converted, 1, Len(converted) - 1)
            \o <<[converted[Len(converted)] EXCEPT !.content = contentParts(xml, last)]>>
    ELSE converted
\* enhancedMessages after route.ts:202-227
Enhance(converted, xml, last) ==
    IF Len(converted) >= 1 /\ converted[Len(converted)].role = "user"
    THEN SubSeq(converted, 1, Len(converted) - 1)
            \o <<[converted[Len(converted)] EXCEPT !.content = contentParts(xml, last)]>>
    ELSE converted

(***************************************************************************)
(* Chat route: the POST handler                                            *)
(***************************************************************************)
NoBinding == [factory |-> "none", credential |-> Undefined, modelId |-> Undefined]
\* the credential of the default openai provider instance (route.ts:2)
EnvCredential == "process.env.OPENAI_API_KEY"
NoException == "none"

\* a throw inside the try block: control moves to the catch clause
Throw(e) ==
    /\ thrown' = e
    /\ pc' = "catch"
\* a return inside the try block
Return(r) ==
    /\ response' = r
    /\ pc' = "done"

\* route.ts:23  const { messages, xml, apiConfig } = await req.json()
ParseBody ==
    /\ pc = "start"
    /\ \/ /\ request.kind = "malformed"
          /\ Throw("SyntaxError")
       \/ /\ request.kind = "null"
          /\ Throw("TypeError")
       \/ /\ request.kind = "object"
          /\ pc' = "validate"
          /\ thrown' = thrown
    /\ UNCHANGED <<request, upstream, selectedModel, modelMessages, enhancedMessages,
                   upstreamCalls, response, logged>>
    /\ UNCHANGED dialogVars

\* a validation that forgets the key
ConfigIsMissing_NoKeyCheck(cfg) == ~cfg.present \/ Falsy(cfg.provider)
\* route.ts:26  !apiConfig || !apiConfig.apiKey || !apiConfig.provider
ConfigIsMissing(cfg) == ~cfg.present \/ Falsy(cfg.apiKey) \/ Falsy(cfg.provider)

\* route.ts:25-31
Validate ==
    /\ pc = "validate"
    /\ \/ /\ ConfigIsMissing(request.apiConfig)
          /\ Return(ConfigMissing)
       \/ /\ ~ConfigIsMissing(request.apiConfig)
          /\ pc' = "bind"
          /\ response' = response
    /\ UNCHANGED <<request, upstream, selectedModel, modelMessages, enhancedMessages,
                   upstreamCalls, thrown, logged>>
    /\ UNCHANGED dialogVars

\* a switch that compares the provider without regard to case
ProviderCase_IgnoreCase(provider) ==
    CASE provider \in {"openai", "OpenAI", "openrouter", "google"} -> "shared"
      [] provider = "siliconflow" -> "siliconflow"
      [] OTHER -> "default"
\* route.ts:38-121: the case of switch (provider) that is taken
ProviderCase(provider) ==
    CASE provider \in {"openai", "openrouter", "google"} -> "shared"
      [] provider = "siliconflow" -> "siliconflow"
      [] OTHER -> "default"

\* a switch whose openai case builds its provider from the key of the request
Binding_OpenAIWithKey(cfg) ==
    CASE cfg.provider = "openai" ->
            [factory |-> "openai", credential |-> cfg.apiKey, modelId |-> OrElse(cfg.model, "gpt-4")]
      [] cfg.provider = "openrouter" ->
            [factory |-> "createOpenRouter", credential |-> cfg.apiKey,
             modelId |-> OrElse(cfg.model, "openai/gpt-4o")]
      [] cfg.provider = "google" ->
            [factory |-> "createGoogleGenerativeAI", credential |-> cfg.apiKey,
             modelId |-> OrElse(cfg.model, "gemini-1.5-pro")]
      [] OTHER -> NoBinding
\* route.ts:35-49: selectedModel after the switch
Binding(cfg) ==
    CASE cfg.provider = "openai" ->
            [factory |-> "openai", credential |-> EnvCredential, modelId |-> OrElse(cfg.model, "gpt-4")]
      [] cfg.provider = "openrouter" ->
            [factory |-> "createOpenRouter", credential |-> cfg.apiKey,
             modelId |-> OrElse(cfg.model, "openai/gpt-4o")]
      [] cfg.provider = "google" ->
            [factory |-> "createGoogleGenerativeAI", credential |-> cfg.apiKey,
             modelId |-> OrElse(cfg.model, "gemini-1.5-pro")]
      [] OTHER -> NoBinding

\* route.ts:33-121  switch (provider)
Bind ==
    /\ pc = "bind"
    /\ LET cfg == request.apiConfig
       IN  \/ /\ ProviderCase(cfg.provider) = "shared"
              /\ selectedModel' = Binding(cfg)
              /\ pc' = "assemble"
              /\ UNCHANGED <<thrown, response>>
           \* route.ts:57 reads enhancedMessages, which the let of route.ts:202
           \* declares in the enclosing block and has not initialised yet
           \/ /\ ProviderCase(cfg.provider) = "siliconflow"
              /\ Throw("ReferenceError")
              /\ UNCHANGED <<selectedModel, response>>
           \/ /\ ProviderCase(cfg.provider) = "default"
              /\ Return(UnsupportedProvider)
              /\ UNCHANGED <<selectedModel, thrown>>
    /\ UNCHANGED <<request, upstream, modelMessages, enhancedMessages, upstreamCalls, logged>>
    /\ UNCHANGED dialogVars

\* route.ts:182-227
Assemble ==
    /\ pc = "assemble"
    /\ \/ \* messages is undefined, or messages[messages.length - 1] is
          /\ ~request.hasMessages \/ request.messages = << >>
          /\ Throw("TypeError")
          /\ UNCHANGED <<modelMessages, enhancedMessages>>
       \/ /\ request.hasMessages
          /\ request.messages # << >>
          /\ LET lastMessage == request.messages[Len(request.messages)]
                 converted == convertToModelMessages(request.messages)
             IN  /\ modelMessages' = converted
                 /\ enhancedMessages' = Enhance(converted, request.xml, lastMessage)
          /\ pc' = "invoke"
          /\ thrown' = thrown
    /\ UNCHANGED <<request, upstream, selectedModel, upstreamCalls, response, logged>>
    /\ UNCHANGED dialogVars

\* the call streamText issues
StreamTextCall == [model |-> selectedModel, messages |-> enhancedMessages, temperature |-> 0]
\* result.toUIMessageStreamResponse({ onError })
UIStreamResponse == [NoResponse EXCEPT !.kind = "ui-stream", !.status = 200]

\* route.ts:231-291
Invoke ==
    /\ pc = "invoke"
    /\ upstreamCalls' = Append(upstreamCalls, StreamTextCall)
    /\ Return(UIStreamResponse)
    /\ UNCHANGED <<request, upstream, selectedModel, modelMessages, enhancedMessages, thrown, logged>>
    /\ UNCHANGED dialogVars

\* a stream end that issues the call again when the stream failed
StreamEnd_Retry ==
    /\ pc = "done"
    /\ response.kind = "ui-stream"
    /\ response.stream = NoText
    /\ response' = [response EXCEPT !.stream =
                        IF upstream.streamError = "none" THEN <<"finish">>
                        ELSE errorHandler(upstream.streamError)]
    /\ upstreamCalls' = IF upstream.streamError = "none" THEN upstreamCalls
                        ELSE Append(upstreamCalls, StreamTextCall)
    /\ UNCHANGED <<pc, request, upstream, selectedModel, modelMessages, enhancedMessages,
                   thrown, logged>>
    /\ UNCHANGED dialogVars
\* the stream of the response ends; an error goes through onError (route.ts:273-291)
StreamEnd ==
    /\ pc = "done"
    /\ response.kind = "ui-stream"
    /\ response.stream = NoText
    /\ response' = [response EXCEPT !.stream =
                        IF upstream.streamError = "none" THEN <<"finish">>
                        ELSE errorHandler(upstream.streamError)]
    /\ UNCHANGED <<pc, request, upstream, selectedModel, modelMessages, enhancedMessages,
                   upstreamCalls, thrown, logged>>
    /\ UNCHANGED dialogVars

\* route.ts:292-298
Catch ==
    /\ pc = "catch"
    /\ logged' = thrown
    /\ Return(InternalServerError)
    /\ UNCHANGED <<request, upstream, selectedModel, modelMessages, enhancedMessages,
                   upstreamCalls, thrown>>
    /\ UNCHANGED dialogVars

(***************************************************************************)
(* Settings dialog: the providers (api-config-dialog.tsx:28-79)            *)
(***************************************************************************)
providers ==
    << [id |-> "openai",
        models |-> <<"gpt-4", "gpt-4-turbo", "gpt-3.5-turbo">>,
        defaultModel |-> "gpt-4",
        getModelsApi |-> Undefined],
       [id |-> "openrouter",
        models |-> <<"openai/gpt-4o", "openai/gpt-4-turbo", "anthropic/claude-3.5-sonnet",
                     "moonshotai/kimi-k2:free">>,
        defaultModel |-> "openai/gpt-4o",
        getModelsApi |-> "https://openrouter.ai/api/v1/models"],
       [id |-> "google",
        models |-> <<"gemini-1.5-pro", "gemini-1.5-flash">>,
        defaultModel |-> "gemini-1.5-pro",
        getModelsApi |-> Undefined],
       [id |-> "siliconflow",
        models |-> <<"Qwen/Qwen2.5-72B-Instruct", "Qwen/Qwen2.5-Coder-32B-Instruct",
                     "deepseek-chat", "deepseek-coder">>,
        defaultModel |-> "Qwen/Qwen2.5-72B-Instruct",
        getModelsApi |-> "https://api.siliconflow.cn/v1/models"] >>
\* the result of find when no provider matches
NoProvider == [id |-> Undefined, models |-> << >>, defaultModel |-> Undefined, getModelsApi |-> Undefined]
ProviderIds == {providers[i].id : i \in 1..Len(providers)}
\* providers.find(p => p.id === id)
FindProvider(id) ==
    IF id \in ProviderIds
    THEN providers[CHOOSE i \in 1..Len(providers) :
                      /\ providers[i].id = id
                      /\ \A j \in 1..(i - 1) : providers[j].id # id]
    ELSE NoProvider

(***************************************************************************)
(* Settings dialog: values                                                 *)
(***************************************************************************)
\* a JavaScript value held by config: an object with the fields of ApiConfig,
\* null or a number (t is its type)
Obj(p, k, m) == [t |-> "object", provider |-> p, apiKey |-> k, model |-> m]
JsNull == [t |-> "null", provider |-> Undefined, apiKey |-> Undefined, model |-> Undefined]
JsNumber == [t |-> "number", provider |-> Undefined, apiKey |-> Undefined, model |-> Undefined]
\* useState<ApiConfig>(...) (api-config-dialog.tsx:84)
DefaultConfig == Obj("openai", Empty, "gpt-4")
NoConfig == [t |-> "none", provider |-> Undefined, apiKey |-> Undefined, model |-> Undefined]
NoRequest == [url |-> Undefined, authorization |-> << >>, reply |-> "none"]

\* the keys a user types: nothing, a blank, a key
Blank == " "
ApiKeys == {Empty, Blank, "sk-1"}
\* apiKey.trim()
Trim(k) == IF k = Blank THEN Empty ELSE k

(***************************************************************************)
(* Settings dialog: JSON text, a sequence of tokens                        *)
(***************************************************************************)
\* the tokens  "key": value  of the field f, none when the value is undefined
Member(v, f) == IF v[f] = Undefined THEN << >> ELSE <<f, v[f]>>
\* JSON.stringify(v)
JSONstringify(v) ==
    CASE v.t = "null" -> <<"null">>
      [] v.t = "number" -> <<"5">>
      [] OTHER -> <<"{">> \o Member(v, "provider") \o Member(v, "apiKey") \o Member(v, "model") \o <<"}">>
\* the text is one JSON value
IsJson(text) ==
    \/ text \in {<<"null">>, <<"5">>}
    \/ /\ Len(text) >= 2
       /\ text[1] = "{"
       /\ text[Len(text)] = "}"
       /\ Len(text) % 2 = 0
       /\ \A i \in 2..(Len(text) - 1) : text[i] \notin {"{", "}"}
RECURSIVE ReadMembers(_, _)
\* the object after the members of tokens are assigned to obj, in order
ReadMembers(obj, tokens) ==
    IF Len(tokens) < 2 THEN obj
    ELSE ReadMembers(
            IF tokens[1] \in {"provider", "apiKey", "model"}
            THEN [obj EXCEPT ![tokens[1]] = tokens[2]] ELSE obj,
            SubSeq(tokens, 3, Len(tokens)))
\* JSON.parse(text), for a text that is JSON
JSONparse(text) ==
    CASE text = <<"null">> -> JsNull
      [] text = <<"5">> -> JsNumber
      [] OTHER -> ReadMembers(Obj(Undefined, Undefined, Undefined), SubSeq(text, 2, Len(text) - 1))

(***************************************************************************)
(* Settings dialog: the mount effect and handleSave                        *)
(***************************************************************************)
\* a backfill that does not test whether the model is there
Backfill_Always(parsed) ==
    IF FindProvider(parsed.provider) # NoProvider
    THEN [parsed EXCEPT !.model = FindProvider(parsed.provider).defaultModel]
    ELSE parsed
\* api-config-dialog.tsx:102-107: the model is filled in from the provider
Backfill(parsed) ==
    IF Falsy(parsed.model) /\ FindProvider(parsed.provider) # NoProvider
    THEN [parsed EXCEPT !.model = FindProvider(parsed.provider).defaultModel]
    ELSE parsed
\* api-config-dialog.tsx:96-113: config after the effect, for the entry read
LoadedConfig(savedConfig) ==
    IF FalsyText(savedConfig) THEN DefaultConfig           \* if (savedConfig)
    ELSE IF ~IsJson(savedConfig) THEN DefaultConfig         \* JSON.parse throws
    ELSE IF JSONparse(savedConfig).t = "null" THEN DefaultConfig  \* parsed.model throws
    ELSE Backfill(JSONparse(savedConfig))                   \* setConfig(parsed)
\* the render reads config.apiKey.trim() (api-config-dialog.tsx:322)
RenderThrows(cfg) == cfg.apiKey = Undefined

\* api-config-dialog.tsx:83-113: the first render and the effect of the mount
Mount ==
    /\ phase = "unmounted"
    /\ config' = LoadedConfig(storage)
    /\ phase' = IF RenderThrows(LoadedConfig(storage)) THEN "crashed" ELSE "mounted"
    /\ UNCHANGED <<storage, availableModels, isLoadingModels, modelSearchQuery, isOpen,
                   alerted, inflight, fetchCalls, lastSaved>>
    /\ UNCHANGED chatVars

\* api-config-dialog.tsx:166-172 and the Save button (320-326): the entry is
\* written and the page reloads, which constructs the component anew
handleSave ==
    /\ phase = "mounted"
    /\ isOpen
    /\ Trim(config.apiKey) # Empty
    /\ storage' = JSONstringify(config)
    /\ lastSaved' = config
    /\ phase' = "unmounted"
    /\ config' = DefaultConfig
    /\ availableModels' = << >>
    /\ isLoadingModels' = FALSE
    /\ modelSearchQuery' = << >>
    /\ isOpen' = FALSE
    /\ alerted' = Undefined
    /\ inflight' = NoRequest
    /\ fetchCalls' = 0
    /\ UNCHANGED chatVars

(***************************************************************************)
(* Settings dialog: the model list                                         *)
(***************************************************************************)
\* the searches a user types (a text is its characters here)
Queries == {<< >>, <<"g", "R">>}
\* the characters of the model ids the endpoints list
Characters(id) ==
    CASE id = "x-ai/grok-4" -> <<"x", "-", "a", "i", "/", "g", "r", "o", "k", "-", "4">>
      [] id = "qwen/qwq" -> <<"q", "w", "e", "n", "/", "q", "w", "q">>
      [] id = "zai/glm" -> <<"z", "a", "i", "/", "g", "l", "m">>
      [] OTHER -> << >>
\* the entries of data.data an endpoint answers with
Catalog(url) ==
    CASE url = "https://openrouter.ai/api/v1/models" ->
            << [id |-> "x-ai/grok-4", name |-> <<"G", "r", "o", "k">>, description |-> <<"x", "A", "I">>],
               [id |-> "qwen/qwq", name |-> NoText, description |-> NoText] >>
      [] url = "https://api.siliconflow.cn/v1/models" ->
            << [id |-> "zai/glm", name |-> NoText, description |-> <<"G", "L", "M">>] >>
      [] OTHER -> << >>
\* api-config-dialog.tsx:138-144: data.data.map(...)
ModelInfos(entries) ==
    [i \in 1..Len(entries) |->
        [id |-> entries[i].id,
         name |-> IF FalsyText(entries[i].name) THEN Characters(entries[i].id) ELSE entries[i].name,
         description |-> entries[i].description]]

\* one character of toLowerCase()
LowerChar(c) ==
    CASE c = "A" -> "a" [] c = "G" -> "g" [] c = "I" -> "i" [] c = "L" -> "l"
      [] c = "M" -> "m" [] c = "R" -> "r" [] OTHER -> c
toLowerCase(t) == [i \in 1..Len(t) |-> LowerChar(t[i])]
\* t.includes(q)
includes(t, q) == \E i \in 0..(Len(t) - Len(q)) : SubSeq(t, i + 1, i + Len(q)) = q

RECURSIVE FilterModels(_, _)
\* api-config-dialog.tsx:156-159  filteredModels
FilterModels(models, query) ==
    IF models = << >> THEN << >>
    ELSE LET m == models[1]
             keep == \/ includes(toLowerCase(m.name), toLowerCase(query))
                     \/ /\ m.description # NoText
                        /\ includes(toLowerCase(m.description), toLowerCase(query))
         IN  (IF keep THEN <<m>> ELSE << >>) \o FilterModels(Tail(models), query)

\* api-config-dialog.tsx:115
selectedProvider == FindProvider(config.provider)
\* api-config-dialog.tsx:162-164
displayModels ==
    IF Len(availableModels) > 0
    THEN LET filtered == FilterModels(availableModels, modelSearchQuery)
         IN  [i \in 1..Len(filtered) |-> filtered[i].id]
    ELSE selectedProvider.models

(***************************************************************************)
(* Settings dialog: the handlers                                           *)
(***************************************************************************)
\* Dialog onOpenChange, the trigger and the Cancel button
SetIsOpen ==
    /\ phase = "mounted"
    /\ isOpen' = ~isOpen
    /\ UNCHANGED <<phase, storage, config, availableModels, isLoadingModels, modelSearchQuery,
                   alerted, inflight, fetchCalls, lastSaved>>
    /\ UNCHANGED chatVars

\* api-config-dialog.tsx:174-183 (providers.find always finds a listed id)
handleProviderChange(providerId) ==
    /\ phase = "mounted"
    /\ isOpen
    /\ FindProvider(providerId) # NoProvider
    /\ config' = [config EXCEPT !.provider = providerId,
                                !.model = FindProvider(providerId).defaultModel]
    /\ UNCHANGED <<phase, storage, availableModels, isLoadingModels, modelSearchQuery, isOpen,
                   alerted, inflight, fetchCalls, lastSaved>>
    /\ UNCHANGED chatVars

\* api-config-dialog.tsx:234
ApiKeyChange(k) ==
    /\ phase = "mounted"
    /\ isOpen
    /\ config' = [config EXCEPT !.apiKey = k]
    /\ UNCHANGED <<phase, storage, availableModels, isLoadingModels, modelSearchQuery, isOpen,
                   alerted, inflight, fetchCalls, lastSaved>>
    /\ UNCHANGED chatVars

\* api-config-dialog.tsx:264, 304-314: the select offers displayModels
ModelChange(i) ==
    /\ phase = "mounted"
    /\ isOpen
    /\ selectedProvider # NoProvider
    /\ i \in 1..Len(displayModels)
    /\ config' = [config EXCEPT !.model = displayModels[i]]
    /\ UNCHANGED <<phase, storage, availableModels, isLoadingModels, modelSearchQuery, isOpen,
                   alerted, inflight, fetchCalls, lastSaved>>
    /\ UNCHANGED chatVars

\* api-config-dialog.tsx:292-302
SearchChange(q) ==
    /\ phase = "mounted"
    /\ isOpen
    /\ selectedProvider.getModelsApi # Undefined
    /\ modelSearchQuery' = q
    /\ UNCHANGED <<phase, storage, config, availableModels, isLoadingModels, isOpen,
                   alerted, inflight, fetchCalls, lastSaved>>
    /\ UNCHANGED chatVars

\* how a GET of a models endpoint settles: it rejects, answers non-2xx,
\* answers 2xx with a list, or answers 2xx without data
Replies == {"reject", "http-error", "ok", "ok-no-data"}

\* api-config-dialog.tsx:118-131: fetchModels up to its await.  The button
\* is disabled while a list is loading or the key is blank (line 274); the
\* branch of line 119 is kept callable although line 268 hides the button
\* of a provider without an endpoint.
fetchModels ==
    /\ phase = "mounted"
    /\ isOpen
    /\ ~isLoadingModels
    /\ Trim(config.apiKey) # Empty
    /\ fetchCalls < MaxFetchCalls
    /\ fetchCalls' = fetchCalls + 1
    /\ \/ /\ selectedProvider.getModelsApi = Undefined
          /\ alerted' = "message.fetchModelsUnsupported"
          /\ UNCHANGED <<isLoadingModels, inflight>>
       \/ /\ selectedProvider.getModelsApi # Undefined
          /\ isLoadingModels' = TRUE
          /\ \E r \in Replies :
                inflight' = [url |-> selectedProvider.getModelsApi,
                             authorization |-> <<"Bearer ", config.apiKey>>,
                             reply |-> r]
          /\ alerted' = alerted
    /\ UNCHANGED <<phase, storage, config, availableModels, modelSearchQuery, isOpen, lastSaved>>
    /\ UNCHANGED chatVars

\* a catch clause that also empties the list
fetchModelsSettle_ClearsOnError ==
    /\ phase = "mounted"
    /\ inflight # NoRequest
    /\ \/ /\ inflight.reply \in {"reject", "http-error"}
          /\ alerted' = "message.fetchModelsError"
          /\ availableModels' = << >>
       \/ /\ inflight.reply = "ok"
          /\ availableModels' = ModelInfos(Catalog(inflight.url))
          /\ alerted' = alerted
       \/ /\ inflight.reply = "ok-no-data"
          /\ availableModels' = << >>
          /\ alerted' = alerted
    /\ isLoadingModels' = FALSE
    /\ inflight' = NoRequest
    /\ UNCHANGED <<phase, storage, config, modelSearchQuery, isOpen, fetchCalls, lastSaved>>
    /\ UNCHANGED chatVars
\* api-config-dialog.tsx:133-152: fetchModels after its await
fetchModelsSettle ==
    /\ phase = "mounted"
    /\ inflight # NoRequest
    /\ \/ /\ inflight.reply \in {"reject", "http-error"}
          /\ alerted' = "message.fetchModelsError"
          /\ availableModels' = availableModels
       \/ /\ inflight.reply = "ok"
          /\ availableModels' = ModelInfos(Catalog(inflight.url))
          /\ alerted' = alerted
       \/ /\ inflight.reply = "ok-no-data"
          /\ availableModels' = << >>
          /\ alerted' = alerted
    /\ isLoadingModels' = FALSE
    /\ inflight' = NoRequest
    /\ UNCHANGED <<phase, storage, config, modelSearchQuery, isOpen, fetchCalls, lastSaved>>
    /\ UNCHANGED chatVars

(***************************************************************************)
(* Settings dialog: the specifications                                     *)
(***************************************************************************)
\* the state of Spec, which has no dialog
DialogAbsent ==
    /\ phase = "unmounted"
    /\ storage = NoText
    /\ config = DefaultConfig
    /\ availableModels = << >>
    /\ isLoadingModels = FALSE
    /\ modelSearchQuery = << >>
    /\ isOpen = FALSE
    /\ alerted = Undefined
    /\ inflight = NoRequest
    /\ fetchCalls = 0
    /\ lastSaved = NoConfig
\* the state of DialogSpec and StoreSpec, which have no request
ChatAbsent ==
    /\ pc = "none"
    /\ request = NonObjectBody("none")
    /\ upstream = NoUpstream
    /\ selectedModel = NoBinding
    /\ modelMessages = << >>
    /\ enhancedMessages = << >>
    /\ upstreamCalls = << >>
    /\ response = NoResponse
    /\ thrown = NoException
    /\ logged = NoException

\* what the entry ai-draw-config may hold when the page loads
StoredEntries ==
    { NoText,
      <<"not json">>,
      <<"null">>,
      <<"5">>,
      <<"{", "}">>,
      <<"{", "apiKey", "sk-1", "}">>,
      <<"{", "provider", "google", "}">>,
      <<"{", "provider", "openai", "apiKey", "sk-1", "}">>,
      <<"{", "apiKey", "sk-1", "provider", "azure", "}">>,
      <<"{", "provider", "siliconflow", "apiKey", "sk-1", "model", "deepseek-chat", "}">> }

\* one page load of the dialog, from any entry; handleSave, which ends the
\* page load, is followed in StoreSpec
DialogInit ==
    /\ phase = "unmounted"
    /\ storage \in StoredEntries
    /\ config = DefaultConfig
    /\ availableModels = << >>
    /\ isLoadingModels = FALSE
    /\ modelSearchQuery = << >>
    /\ isOpen = FALSE
    /\ alerted = Undefined
    /\ inflight = NoRequest
    /\ fetchCalls = 0
    /\ lastSaved = NoConfig
    /\ ChatAbsent

DialogNext ==
    \/ Mount
    \/ SetIsOpen
    \/ \E id \in ProviderIds : handleProviderChange(id)
    \/ \E k \in ApiKeys : ApiKeyChange(k)
    \/ \E i \in 1..Len(displayModels) : ModelChange(i)
    \/ \E q \in Queries : SearchChange(q)
    \/ fetchModels
    \/ fetchModelsSettle

DialogSpec == DialogInit /\ [][DialogNext]_vars

\* the configs handleSave may be run on
StoreModels == {Undefined, Empty, "gpt-4", "gpt-4-turbo", "gemini-1.5-flash", "deepseek-chat", "my-model"}
StoreConfigs == {Obj(p, k, m) : p \in ProviderIds \cup {"azure"}, k \in ApiKeys \cup {"sk-2"}, m \in StoreModels}

\* save, then load: the dialog is open on any config, Save is pressed, the
\* page reloads and the mount effect reads the entry
StoreInit ==
    /\ phase = "mounted"
    /\ storage = NoText
    /\ config \in StoreConfigs
    /\ availableModels = << >>
    /\ isLoadingModels = FALSE
    /\ modelSearchQuery = << >>
    /\ isOpen = TRUE
    /\ alerted = Undefined
    /\ inflight = NoRequest
    /\ fetchCalls = 0
    /\ lastSaved = NoConfig
    /\ ChatAbsent

StoreNext ==
    \/ handleSave
    \/ Mount

StoreSpec == StoreInit /\ [][StoreNext]_vars

(***************************************************************************)
(* Settings dialog: the claims                                             *)
(***************************************************************************)
\* the config has a model (not undefined, not the empty string)
HasModel(cfg) == cfg.model \notin {Undefined, Empty}
\* the default model the providers table declares for a provider id
DeclaredDefault(id) ==
    CASE id = "openai" -> "gpt-4"
      [] id = "openrouter" -> "openai/gpt-4o"
      [] id = "google" -> "gemini-1.5-pro"
      [] id = "siliconflow" -> "Qwen/Qwen2.5-72B-Instruct"
Declared(id) == id \in {"openai", "openrouter", "google", "siliconflow"}

\* C5: save(cfg) followed by load() yields a config equal to cfg in
\* provider, apiKey and model; when cfg had no model (none, or the empty
\* string, which the load takes for none) the loaded model is the declared
\* default of cfg.provider; a provider that declares none leaves cfg as is.
C5_SaveLoadRoundTrip ==
    (phase = "mounted" /\ lastSaved # NoConfig) =>
        /\ config.t = "object"
        /\ config.provider = lastSaved.provider
        /\ config.apiKey = lastSaved.apiKey
        /\ HasModel(lastSaved) => config.model = lastSaved.model
        /\ (~HasModel(lastSaved) /\ Declared(lastSaved.provider)) =>
                config.model = DeclaredDefault(lastSaved.provider)
        /\ (~HasModel(lastSaved) /\ ~Declared(lastSaved.provider)) =>
                config.model = lastSaved.model
C5_Witness ==
    /\ phase = "mounted"
    /\ lastSaved = Obj("google", "sk-2", Undefined)
    /\ storage = <<"{", "provider", "google", "apiKey", "sk-2", "}">>
    /\ config.model = "gemini-1.5-pro"

\* the entry is there and is no ApiConfig: no JSON, or JSON that is no
\* object, or an object without provider or apiKey
EntryIsNoApiConfig ==
    /\ ~FalsyText(storage)
    /\ \/ ~IsJson(storage)
       \/ JSONparse(storage).t # "object"
       \/ JSONparse(storage).provider = Undefined
       \/ JSONparse(storage).apiKey = Undefined

\* C8: for every persisted value that is no well-formed ApiConfig
\* (unparseable, null, a number, an object without provider), and when no
\* entry is persisted, the config after the load is the default config.
C8_MalformedEntryGivesDefault ==
    [][(phase = "unmounted" /\ phase' # "unmounted" /\ (EntryIsNoApiConfig \/ storage = NoText))
        => config' = DefaultConfig]_vars

\* a GET of fetchModels that failed settles in this step
FailedFetchSettles ==
    /\ phase = "mounted"
    /\ phase' = "mounted"
    /\ inflight.reply \in {"reject", "http-error"}
    /\ inflight' = NoRequest
\* fetchModels is invoked in this step for a provider without endpoint
UnsupportedFetchIsCalled ==
    /\ fetchCalls' = fetchCalls + 1
    /\ \A i \in 1..Len(providers) :
          providers[i].id = config.provider => providers[i].getModelsApi = Undefined

\* C9: when the selected provider declares no models endpoint, or the GET
\* rejects or answers non-2xx, the model list and the config are the ones
\* before the call, an error is shown to the user, and the loading flag is
\* false once the call has finished.
C9_FetchFailsSoftly ==
    [][ /\ FailedFetchSettles =>
            /\ availableModels' = availableModels
            /\ config' = config
            /\ alerted' = "message.fetchModelsError"
            /\ isLoadingModels' = FALSE
        /\ UnsupportedFetchIsCalled =>
            /\ availableModels' = availableModels
            /\ config' = config
            /\ alerted' = "message.fetchModelsUnsupported"
            /\ isLoadingModels' = FALSE
            /\ inflight' = inflight ]_vars
C9_Witness ==
    /\ phase = "mounted"
    /\ alerted = "message.fetchModelsError"
    /\ fetchCalls = 2
    /\ inflight = NoRequest
    /\ ~isLoadingModels
    /\ Len(availableModels) = 2

(***************************************************************************)
(* Chat route: the specification                                           *)
(***************************************************************************)
Init ==
    /\ pc = "start"
    /\ request \in Requests
    /\ upstream \in UpstreamsOf(request)
    /\ selectedModel = NoBinding
    /\ modelMessages = << >>
    /\ enhancedMessages = << >>
    /\ upstreamCalls = << >>
    /\ response = NoResponse
    /\ thrown = NoException
    /\ logged = NoException
    /\ DialogAbsent

Next ==
    \/ ParseBody
    \/ Validate
    \/ Bind
    \/ Assemble
    \/ Invoke
    \/ StreamEnd
    \/ Catch

Spec == Init /\ [][Next]_vars

(***************************************************************************)
(* Chat route: the claims                                                  *)
(***************************************************************************)
\* the request is a JSON object without a usable apiConfig
LacksConfig ==
    /\ request.kind = "object"
    /\ \/ ~request.apiConfig.present
       \/ request.apiConfig.apiKey \in {Undefined, Empty}
       \/ request.apiConfig.provider \in {Undefined, Empty}
\* the response is a JSON error of status st
IsJsonError(st) ==
    /\ response.kind = "json"
    /\ response.status = st
    /\ response.error # NoText
    /\ response.error # << >>

\* C1: a request whose body has no apiConfig, or whose apiConfig.apiKey or
\* apiConfig.provider is missing or empty, is answered 400 with an error
\* body, and no upstream call is made while it is handled.
C1_MissingConfigIs400 ==
    LacksConfig =>
        /\ upstreamCalls = << >>
        /\ pc # "catch"
        /\ pc = "done" => IsJsonError(400)
C1_Witness ==
    /\ pc = "done"
    /\ request.kind = "object"
    /\ request.apiConfig.present
    /\ request.apiConfig.provider = "openai"
    /\ request.apiConfig.apiKey = Empty
    /\ request.messages # << >>
    /\ response.status = 400

\* the request names a provider that is none of the four supported ones
UnknownProvider ==
    /\ request.kind = "object"
    /\ request.apiConfig.present
    /\ request.apiConfig.apiKey \notin {Undefined, Empty}
    /\ request.apiConfig.provider \notin {"openai", "openrouter", "google", "siliconflow"}

\* C2: a request with a non-empty apiKey and a provider that is none of
\* openai, openrouter, google, siliconflow is answered 400 with an error
\* body and no upstream call, whatever its messages and xml.
C2_UnknownProviderIs400 ==
    UnknownProvider =>
        /\ upstreamCalls = << >>
        /\ pc # "catch"
        /\ pc = "done" => IsJsonError(400)
C2_Witness ==
    /\ pc = "done"
    /\ UnknownProvider
    /\ request.apiConfig.provider = "OpenAI"
    /\ request.messages # << >>
    /\ response.status = 400

\* a siliconflow request with a usable apiConfig
SiliconFlowRequest ==
    /\ request.kind = "object"
    /\ request.apiConfig.present
    /\ request.apiConfig.apiKey \notin {Undefined, Empty}
    /\ request.apiConfig.provider = "siliconflow"

\* C3: for provider siliconflow, a non-empty apiKey and a non-empty message
\* list, when the completions endpoint answers 2xx, the response is status
\* 200 and two frames: the text of the block fenced as xml, trimmed, tagged
\* display_diagram (or the raw text without a tool when there is no such
\* block), then the frame [DONE].
C3_SiliconFlowFrames ==
    ( /\ pc = "done"
      /\ SiliconFlowRequest
      /\ request.hasMessages
      /\ request.messages # << >>
      /\ upstream.ok )
    => LET content == OrElseText(upstream.content, << >>)
       IN  /\ response.kind = "sse"
           /\ response.status = 200
           /\ Len(response.frames) = 2
           /\ response.frames[2] = Done
           /\ response.frames[1] =
                IF HasToolCall(content)
                THEN SseEvent(ToolCallXml(content), "display_diagram")
                ELSE SseEvent(content, Undefined)

\* C4: for provider siliconflow, when the completions endpoint answers a
\* non-2xx status S, the response has status S and its error holds the
\* error.message of the answer, or the status text when there is none.
C4_SiliconFlowUpstreamError ==
    ( /\ pc = "done"
      /\ SiliconFlowRequest
      /\ ~upstream.ok )
    => /\ response.kind = "json"
       /\ response.status = upstream.status
       /\ \E prefix \in {<<"SiliconFlow API error: ">>} :
            response.error = prefix \o (IF upstream.errorMessage \in {NoText, << >>}
                                        THEN upstream.statusText
                                        ELSE upstream.errorMessage)

\* C6: on every path at most one upstream call is issued, and once the
\* handler has returned (streamed response or error response) it stays
\* returned with the same response status and issues no further call.
C6_NoRetries ==
    /\ [](Len(upstreamCalls) <= 1)
    /\ [][pc = "done" => /\ pc' = "done"
                         /\ upstreamCalls' = upstreamCalls
                         /\ response'.kind = response.kind
                         /\ response'.status = response.status]_vars
C6_Witness ==
    /\ pc = "done"
    /\ Len(upstreamCalls) = 1
    /\ response.stream = <<"error.message">>

\* C7: every exception raised in the handler ends in status 500 with the
\* body {error: "Internal server error"}, the same for every exception; the
\* exception itself goes to the server log only.
C7_ExceptionsAre500 ==
    (pc = "done" /\ thrown # NoException) =>
        /\ response.kind = "json"
        /\ response.status = 500
        /\ response.error = <<"Internal server error">>
        /\ logged = thrown
C7_Witness ==
    /\ pc = "done"
    /\ thrown = "TypeError"
    /\ request.kind = "object"
    /\ request.apiConfig.provider = "google"
    /\ response.status = 500

\* the context has been assembled
Assembled == pc = "invoke" \/ (pc = "done" /\ response.kind = "ui-stream")

\* C10: the rewritten list is as long as the converted list, every turn but
\* the last is the converted turn, and the last turn is rewritten only when
\* its role is user: its content is then one text part (the fenced diagram,
\* then the fenced user text) followed by one image part per file part of
\* the last message, in their order; otherwise the list is the converted one.
C10_ContextAssembly ==
    Assembled =>
        LET n == Len(modelMessages)
            last == request.messages[Len(request.messages)]
            files == fileParts(last)
        IN  /\ n >= 1
            /\ Len(enhancedMessages) = n
            /\ \A i \in 1..(n - 1) : enhancedMessages[i] = modelMessages[i]
            /\ modelMessages[n].role # "user" => enhancedMessages = modelMessages
            /\ modelMessages[n].role = "user" =>
                /\ enhancedMessages[n].role = "user"
                /\ Len(enhancedMessages[n].content) = 1 + Len(files)
                /\ enhancedMessages[n].content[1] =
                      ModelText(formattedTextContent(request.xml, lastMessageText(last)))
                /\ \A j \in 1..Len(files) :
                      enhancedMessages[n].content[j + 1] =
                          ModelImage(files[j].url, files[j].mediaType)
C10_Witness ==
    /\ pc = "invoke"
    /\ Len(enhancedMessages) = 2
    /\ enhancedMessages[2].role = "user"
    /\ Len(enhancedMessages[2].content) = 3
    /\ enhancedMessages[2].content[2].image = "blob:2"
    /\ enhancedMessages[2].content[3].image = "blob:1"
    /\ enhancedMessages[1] = modelMessages[1]

\* the handler has bound a model for the request
Bound == request.kind = "object" /\ selectedModel # NoBinding
\* the model id the request asks for, or the default d
RequestedModelId(d) ==
    IF request.apiConfig.model \in {Undefined, Empty} THEN d ELSE request.apiConfig.model
\* the call of an openai request, written without the key of the request
OpenAICall ==
    [model |-> [factory |-> "openai", credential |-> EnvCredential,
                modelId |-> RequestedModelId("gpt-4")],
     messages |-> Enhance(convertToModelMessages(request.messages), request.xml,
                          request.messages[Len(request.messages)]),
     temperature |-> 0]

\* C11: the binding of an openrouter or google request carries the apiKey of
\* the request; the binding of an openai request carries the default
\* credential of the process, and both that binding and the call issued are
\* functions of the request without its apiKey, so two openai requests that
\* differ only in a non-empty apiKey get the same binding and the same call.
C11_CredentialRouting ==
    Bound =>
        LET cfg == request.apiConfig
        IN  /\ cfg.provider \in {"openai", "openrouter", "google"}
            /\ cfg.provider = "openrouter" =>
                  /\ selectedModel.factory = "createOpenRouter"
                  /\ selectedModel.credential = cfg.apiKey
                  /\ selectedModel.modelId = RequestedModelId("openai/gpt-4o")
            /\ cfg.provider = "google" =>
                  /\ selectedModel.factory = "createGoogleGenerativeAI"
                  /\ selectedModel.credential = cfg.apiKey
                  /\ selectedModel.modelId = RequestedModelId("gemini-1.5-pro")
            /\ cfg.provider = "openai" =>
                  /\ selectedModel = OpenAICall.model
                  /\ selectedModel.credential # cfg.apiKey
                  /\ upstreamCalls # << >> => upstreamCalls = <<OpenAICall>>
            /\ cfg.provider # "openai" /\ upstreamCalls # << >> =>
                  /\ Len(upstreamCalls) = 1
                  /\ upstreamCalls[1].model.credential = cfg.apiKey
C11_Witness ==
    /\ pc = "done"
    /\ request.apiConfig.provider = "openai"
    /\ request.apiConfig.apiKey = "sk-2"
    /\ Len(upstreamCalls) = 1
    /\ upstreamCalls[1].model.credential = EnvCredential
    /\ upstreamCalls[1].model.modelId = "gpt-4"

\* a request with a valid configuration, a supported provider and no turns
EmptyMessagesRequest ==
    /\ request.kind = "object"
    /\ ~ConfigIsMissing(request.apiConfig)
    /\ request.apiConfig.provider \in {"openai", "openrouter", "google", "siliconflow"}
    /\ request.hasMessages
    /\ request.messages = << >>

\* C12: a request with a valid apiConfig, a supported provider and an empty
\* messages sequence is rejected by the validation: the handler never gets
\* to the provider switch or past it, no model is bound, no upstream call is
\* issued, and the response is the 400 JSON error of the validation.
C12_EmptyMessagesRejectedInValidate ==
    EmptyMessagesRequest =>
        /\ pc \notin {"bind", "assemble", "invoke", "catch"}
        /\ selectedModel = NoBinding
        /\ upstreamCalls = << >>
        /\ thrown = NoException
        /\ pc = "done" => response.kind = "json" /\ response.status = 400

\* the ids the models endpoint of provider p lists
CatalogIds(p) ==
    IF p.getModelsApi = Undefined THEN {}
    ELSE {Catalog(p.getModelsApi)[i].id : i \in 1..Len(Catalog(p.getModelsApi))}
\* the ids provider p declares or lists
ModelsOf(p) == {p.models[i] : i \in 1..Len(p.models)} \cup CatalogIds(p)

\* C13: in the mounted dialog a non-empty available-model list is the list of
\* the models endpoint of the currently selected provider, and every id the
\* selector offers is a model of the selected provider.
C13_ListBelongsToSelectedProvider ==
    (phase = "mounted" /\ availableModels # << >>) =>
        /\ selectedProvider.getModelsApi # Undefined
        /\ availableModels = ModelInfos(Catalog(selectedProvider.getModelsApi))
        /\ \A i \in 1..Len(displayModels) : displayModels[i] \in ModelsOf(selectedProvider)

=============================================================================
